---- MODULE Spec2Model ----
(***************************************************************************)
(* Model of the tic-tac-toe room server of src/server.js: the room         *)
(* registry (rooms), the connection -> room map (playerSockets), the       *)
(* socket.io handlers joinRoom, makeMove, resetGame, playerReady,          *)
(* chatMessage and disconnect, the inactivity timers and the stale-room    *)
(* sweep.  Every handler is one atomic action: node runs each callback to  *)
(* completion on a single thread.  A handler is an operator from the       *)
(* current state and the request to the state it leaves and the events it  *)
(* emits; the action of the same name applies it.                          *)
(*                                                                         *)
(* Strings that the code measures (room ids, names, chat messages) are     *)
(* sequences of character codes; symbols and event names are TLA+ strings. *)
(***************************************************************************)
EXTENDS Integers, Sequences, FiniteSets, TLC

\* ------------------------------------------------------------- bounds
\* Number of socket ids the environment ever connects.
MaxConns == 3
\* Number of distinct well-formed room ids clients ask for.
MaxRooms == 2
\* Highest board index clients ask for with symbol O (X asks for 0..2).
MaxIndex == 4
\* Number of joinRoom requests the clients send in one run.
MaxJoins == 4

\* --------------------------------------------------- program constants
BoardSize == 9
MaxNameLen == 20
MaxRoomIdLen == 10
MaxChatLen == 100
\* players.length === 2 starts a game (joinRoom) and keeps it active (resetRoom).
StartCount == 2
\* config.maxPlayersPerRoom; config.json is not part of the sources, the
\* specification fixes the capacity at 2.
MaxPlayersPerRoom == 2
\* The free identifier req of the joinSuccess payload: no binding of req is in
\* scope of the connection callback, so evaluating it throws a ReferenceError.
ReqInScope == FALSE

\* -------------------------------------------------------------- strings
Space == 32
\* The code units String.prototype.trim strips: WhiteSpace (TAB, VT, FF, SP,
\* NBSP, ZWNBSP and the space separators of Unicode) and LineTerminator (LF, CR,
\* LS, PS).
WhiteSpace ==
  {9, 10, 11, 12, 13, Space, 160, 5760, 8232, 8233, 8239, 8287, 12288, 65279}
  \cup 8192..8202
RECURSIVE TrimLeft(_)
TrimLeft(s) == IF s # <<>> /\ Head(s) \in WhiteSpace THEN TrimLeft(Tail(s)) ELSE s
RECURSIVE TrimRight(_)
TrimRight(s) ==
  IF s # <<>> /\ s[Len(s)] \in WhiteSpace THEN TrimRight(SubSeq(s, 1, Len(s) - 1)) ELSE s
\* String.prototype.trim
Trim(s) == TrimRight(TrimLeft(s))
\* A string of n copies of character ch.
Repeat(ch, n) == [i \in 1..n |-> ch]
\* JavaScript truthiness of a string value: only the empty string is falsy.
Truthy(s) == s # <<>>

Conns == 1..MaxConns
\* Room id number n: room 1 is "1"; the others have MaxRoomIdLen characters, the
\* longest id the server accepts.
RoomId(n) ==
  IF n = 1 THEN <<49>> ELSE [i \in 1..MaxRoomIdLen |-> IF i = 1 THEN 48 + n ELSE 82]
ValidRooms == {RoomId(n) : n \in 1..MaxRooms}
Room1 == RoomId(1)
LongRoom == Repeat(82, MaxRoomIdLen + 1)
\* A name of exactly MaxNameLen characters ("A" between TAB, NBSP, blanks and
\* LF, which trim strips), and one of MaxNameLen + 1 characters.
GoodName == <<9, 160>> \o Repeat(Space, MaxNameLen - 4) \o <<65, 10>>
LongName == Repeat(65, MaxNameLen + 1)
\* The decimal digits of the number 42, sent as a name that is not a string.
NumberName == <<52, 50>>
ChatInputs == {<<9>> \o Repeat(72, MaxChatLen) \o <<10>>, Repeat(72, MaxChatLen + 1)}
EmptyBoard == [i \in 1..BoardSize |-> ""]

VARIABLES
  connected,      \* the sockets that are open (a closed socket id is never reused)
  rooms,          \* the Map rooms: room id -> room data
  playerSockets,  \* the Map playerSockets: socket id -> room id
  adapter,        \* socket.io room membership: room id -> sockets joined to it
  pending,        \* per room id, the setTimeout callbacks not yet run or cleared
  evaluated,      \* a board handed to checkWinner on its own, and what it returned
  joinsSent       \* the number of joinRoom requests the clients have sent

vars == <<connected, rooms, playerSockets, adapter, pending, evaluated, joinsSent>>

\* ---------------------------------------------------------------- maps
Put(f, k, v) == [x \in DOMAIN f \cup {k} |-> IF x = k THEN v ELSE f[x]]
Del(f, k) == [x \in DOMAIN f \ {k} |-> f[x]]

\* --------------------------------------------------------------- events
\* io.to(room).emit(ev, ...): delivered to the sockets joined to room.
ToRoom(adp, room, ev, gs, n) ==
  [ev |-> ev, room |-> room, to |-> adp[room], msg |-> "",
   status |-> gs.gameStatus, winner |-> gs.winner, n |-> n]
\* socket.emit(ev, msg): delivered to the caller alone.
ToCaller(c, ev, msg) ==
  [ev |-> ev, room |-> <<>>, to |-> {c}, msg |-> msg,
   status |-> "", winner |-> "", n |-> -1]
\* io.to(room).emit of an event that carries no game state.
ToRoomPlain(adp, room, ev) ==
  [ev |-> ev, room |-> room, to |-> adp[room], msg |-> "",
   status |-> "", winner |-> "", n |-> -1]

\* ------------------------------------------------------------ checkWinner
winPatterns ==
  << <<0,1,2>>, <<3,4,5>>, <<6,7,8>>,
     <<0,3,6>>, <<1,4,7>>, <<2,5,8>>,
     <<0,4,8>>, <<2,4,6>> >>
\* Mutant of Cell: an index outside the board reads as an empty cell.
CellUnchecked(board, i) == IF i \in 0..(BoardSize - 1) THEN board[i + 1] ELSE ""
\* board[i] of the code's 0-based array; undefined outside 0..8.
Cell(board, i) == IF i \in 0..(BoardSize - 1) THEN board[i + 1] ELSE "undefined"
PatternHit(board, k) ==
  LET a == winPatterns[k][1]
      b == winPatterns[k][2]
      c == winPatterns[k][3]
  IN  Cell(board, a) # "" /\ Cell(board, a) = Cell(board, b) /\ Cell(board, a) = Cell(board, c)
\* Mutant of checkWinner: a full board without a line is not reported as a tie.
checkWinnerNoTie(board) ==
  LET hits == {k \in 1..Len(winPatterns) : PatternHit(board, k)}
  IN  IF hits # {}
      THEN Cell(board, winPatterns[CHOOSE k \in hits : \A j \in hits : k <= j][1])
      ELSE "null"
\* Mutant of checkWinner: only the three rows are tried.
checkWinnerRows(board) ==
  LET hits == {k \in 1..3 : PatternHit(board, k)}
  IN  IF hits # {}
      THEN Cell(board, winPatterns[CHOOSE k \in hits : \A j \in hits : k <= j][1])
      ELSE IF \A i \in 1..BoardSize : board[i] # "" THEN "tie" ELSE "null"
\* The first pattern, in array order, whose three cells hold one symbol decides;
\* "null" stands for JavaScript null.
checkWinner(board) ==
  LET hits == {k \in 1..Len(winPatterns) : PatternHit(board, k)}
  IN  IF hits # {}
      THEN Cell(board, winPatterns[CHOOSE k \in hits : \A j \in hits : k <= j][1])
      ELSE IF \A i \in 1..BoardSize : board[i] # "" THEN "tie" ELSE "null"

\* Mutant of SwitchTurn: the turn stays with the symbol that moved.
SwitchTurnStuck(turn) == turn
\* gameState.currentTurn === 'X' ? 'O' : 'X'
SwitchTurn(turn) == IF turn = "X" THEN "O" ELSE "X"

\* ---------------------------------------------------------------- rooms
\* Mutant of NewGameState: the move counter of a fresh game starts at 1.
NewGameStateCounted(status) ==
  [board |-> EmptyBoard, currentTurn |-> "X", gameStatus |-> status,
   winner |-> "null", moves |-> 1]
NewGameState(status) ==
  [board |-> EmptyBoard, currentTurn |-> "X", gameStatus |-> status,
   winner |-> "null", moves |-> 0]
\* The room object joinRoom stores for an unknown id.  timeout is "null",
\* "pending" (the handle of a timer that has not run) or "fired" (the handle
\* of the timer whose callback is running).
NewRoom(isPrivate) ==
  [players |-> <<>>, gameState |-> NewGameState("waiting"),
   private |-> isPrivate, timeout |-> "null"]
PlayerIds(room) == {room.players[i].id : i \in 1..Len(room.players)}
PlayerSymbols(room) == {room.players[i].symbol : i \in 1..Len(room.players)}
\* roomData.players.length >= config.maxPlayersPerRoom
roomIsFull(roomData) == Len(roomData.players) >= MaxPlayersPerRoom
\* Mutant of symbolTaken: the symbol check is skipped.
symbolTakenNever(roomData, symbol) == FALSE
\* roomData.players.some(p => p.symbol === symbol)
symbolTaken(roomData, symbol) == symbol \in PlayerSymbols(roomData)
\* Mutant of RemovePlayer: the departing player stays on the list.
RemovePlayerKeeps(players, socketId) == players
\* roomData.players.filter(p => p.id !== socketId)
RemovePlayer(players, socketId) ==
  LET Stays(p) == p.id # socketId IN SelectSeq(players, Stays)
\* Mutant of ClearReady: the ready flags survive a reset.
ClearReadyKeeps(players) == players
\* roomData.players.forEach(p => p.ready = false)
ClearReady(players) == [i \in 1..Len(players) |-> [players[i] EXCEPT !.ready = FALSE]]
\* clearTimeout(handle): one pending callback of the room id is dropped when the
\* handle is still pending; clearing a handle that already ran does nothing.
ClearTimeout(pend, roomId, handle) ==
  IF handle = "pending" THEN [pend EXCEPT ![roomId] = @ - 1] ELSE pend

\* resetRoom(roomId): the registry and the pending timers after the call.
resetRoom(rms, pend, roomId) ==
  IF roomId \notin DOMAIN rms THEN [rooms |-> rms, pending |-> pend]
  ELSE LET r == rms[roomId]
           status == IF Len(r.players) = StartCount THEN "active" ELSE "waiting"
       IN  [rooms |-> [rms EXCEPT ![roomId] =
                         [r EXCEPT !.timeout = "null",
                                   !.gameState = NewGameState(status),
                                   !.players = ClearReady(r.players)]],
            pending |-> IF r.timeout # "null" THEN ClearTimeout(pend, roomId, r.timeout)
                        ELSE pend]

\* Mutant of leaveRoom: a departure during a game leaves the status active.
leaveRoomStaysActive(rms, pend, adp, socketId, roomId) ==
  IF roomId \notin DOMAIN rms THEN [rooms |-> rms, pending |-> pend, events |-> <<>>]
  ELSE LET r == rms[roomId]
           players2 == RemovePlayer(r.players, socketId)
       IN  IF Len(players2) = 0
           THEN [rooms |-> Del(rms, roomId),
                 pending |-> IF r.timeout # "null" THEN ClearTimeout(pend, roomId, r.timeout)
                             ELSE pend,
                 events |-> <<>>]
           ELSE [rooms |-> [rms EXCEPT ![roomId] = [r EXCEPT !.players = players2]],
                 pending |-> pend,
                 events |-> <<ToRoom(adp, roomId, "roomUpdate", r.gameState, Len(players2))>>]
\* leaveRoom(socketId, roomId): the registry, the pending timers and the events
\* emitted.  adp is the socket.io membership at the time of the call.
leaveRoom(rms, pend, adp, socketId, roomId) ==
  IF roomId \notin DOMAIN rms THEN [rooms |-> rms, pending |-> pend, events |-> <<>>]
  ELSE LET r == rms[roomId]
           players2 == RemovePlayer(r.players, socketId)
       IN  IF Len(players2) = 0
           THEN [rooms |-> Del(rms, roomId),
                 pending |-> IF r.timeout # "null" THEN ClearTimeout(pend, roomId, r.timeout)
                             ELSE pend,
                 events |-> <<>>]
           ELSE LET wasActive == r.gameState.gameStatus = "active"
                    gs2 == IF wasActive THEN [r.gameState EXCEPT !.gameStatus = "finished"]
                           ELSE r.gameState
                    n == Len(players2)
                IN  [rooms |-> [rms EXCEPT ![roomId] =
                                  [r EXCEPT !.players = players2, !.gameState = gs2]],
                     pending |-> pend,
                     events |-> (IF wasActive
                                 THEN <<ToRoom(adp, roomId, "playerLeft", gs2, n)>>
                                 ELSE <<>>)
                                \o <<ToRoom(adp, roomId, "roomUpdate", gs2, n)>>]

\* socket.leave(room) / socket.join(room) on the socket.io adapter.
AdapterLeave(adp, c, room) ==
  IF room \in DOMAIN adp THEN [adp EXCEPT ![room] = @ \ {c}] ELSE adp
AdapterJoin(adp, c, room) ==
  IF room \in DOMAIN adp THEN [adp EXCEPT ![room] = @ \cup {c}] ELSE adp
\* The adapter drops a closing socket from every room.
AdapterLeaveAll(adp, c) == [room \in DOMAIN adp |-> adp[room] \ {c}]

\* ------------------------------------------------------------------ Init
\* The server has started and the sockets are connected; the connection
\* callback only registers the handlers below.
Init ==
  /\ connected = Conns
  /\ rooms = << >>
  /\ playerSockets = << >>
  /\ adapter = [room \in ValidRooms |-> {}]
  /\ pending = [room \in ValidRooms |-> 0]
  /\ evaluated = [board |-> EmptyBoard, winner |-> "unset"]
  /\ joinsSent = 0

\* ------------------------------------------------------------- joinRoom
\* The name of a request is a string (its characters are q.name) or a non-zero
\* number, which is truthy, has no length (undefined > 20 is false) and no
\* trim method: name.trim() then throws a TypeError, which the handler's catch
\* block answers with error 'Failed to join room'.
NameIsString(q) == q.nameType = "string"
NameTruthy(q) == IF NameIsString(q) THEN Truthy(q.name) ELSE TRUE
NameLengthOver(q, max) == IF NameIsString(q) THEN Len(q.name) > max ELSE FALSE
\* The result of socket.on('joinRoom') for socket c and request q =
\* [room, name, nameType, symbol, isPrivate].  added tells whether the player
\* was pushed onto the room's player list.
joinRoom(c, q) ==
  IF ~Truthy(q.room) \/ ~NameTruthy(q) \/ q.symbol = ""
  THEN [rooms |-> rooms, pending |-> pending, adapter |-> adapter,
        playerSockets |-> playerSockets, added |-> FALSE,
        events |-> <<ToCaller(c, "error", "Missing required fields")>>]
  ELSE IF NameLengthOver(q, MaxNameLen) \/ Len(q.room) > MaxRoomIdLen
  THEN [rooms |-> rooms, pending |-> pending, adapter |-> adapter,
        playerSockets |-> playerSockets, added |-> FALSE,
        events |-> <<ToCaller(c, "error", "Name or room ID too long")>>]
  ELSE
  LET hasPrev == c \in DOMAIN playerSockets
      adp1 == IF hasPrev THEN AdapterLeave(adapter, c, playerSockets[c]) ELSE adapter
      left == IF hasPrev THEN leaveRoom(rooms, pending, adp1, c, playerSockets[c])
              ELSE [rooms |-> rooms, pending |-> pending, events |-> <<>>]
      rms1 == IF q.room \in DOMAIN left.rooms THEN left.rooms
              ELSE Put(left.rooms, q.room, NewRoom(q.isPrivate))
      roomData == rms1[q.room]
  IN  IF roomIsFull(roomData)
      THEN [rooms |-> rms1, pending |-> left.pending, adapter |-> adp1,
            playerSockets |-> playerSockets, added |-> FALSE,
            events |-> left.events \o <<ToCaller(c, "roomFull", "Room is full")>>]
      ELSE IF symbolTaken(roomData, q.symbol)
      THEN [rooms |-> rms1, pending |-> left.pending, adapter |-> adp1,
            playerSockets |-> playerSockets, added |-> FALSE,
            events |-> left.events \o <<ToCaller(c, "symbolTaken", "Symbol already taken")>>]
      ELSE IF ~NameIsString(q)
      THEN [rooms |-> rms1, pending |-> left.pending,
            adapter |-> AdapterJoin(adp1, c, q.room),
            playerSockets |-> Put(playerSockets, c, q.room), added |-> FALSE,
            events |-> left.events \o <<ToCaller(c, "error", "Failed to join room")>>]
      ELSE
        LET adp2 == AdapterJoin(adp1, c, q.room)
            player == [id |-> c, name |-> Trim(q.name), symbol |-> q.symbol, ready |-> FALSE]
            players2 == Append(roomData.players, player)
            starts == Len(players2) = StartCount
            gsStart == [roomData.gameState EXCEPT !.gameStatus = "active", !.currentTurn = "X"]
            room2 == IF starts
                     THEN [roomData EXCEPT !.players = players2, !.gameState = gsStart,
                                           !.timeout = "pending"]
                     ELSE [roomData EXCEPT !.players = players2]
        IN  [rooms |-> [rms1 EXCEPT ![q.room] = room2],
             pending |-> IF starts THEN [left.pending EXCEPT ![q.room] = @ + 1]
                         ELSE left.pending,
             adapter |-> adp2,
             playerSockets |-> Put(playerSockets, c, q.room),
             added |-> TRUE,
             events |-> left.events
                \o <<ToRoom(adp2, q.room, "roomUpdate", roomData.gameState, Len(players2))>>
                \o (IF starts
                    THEN <<ToRoom(adp2, q.room, "gameStart", gsStart, Len(players2))>>
                    ELSE <<>>)
                \o (IF ReqInScope
                    THEN <<ToCaller(c, "joinSuccess", "")>>
                    ELSE <<ToCaller(c, "error", "Failed to join room")>>)]

JoinRoom(c, q) ==
  /\ c \in connected
  /\ joinsSent < MaxJoins
  /\ LET res == joinRoom(c, q)
     IN  /\ rooms' = res.rooms
         /\ pending' = res.pending
         /\ adapter' = res.adapter
         /\ playerSockets' = res.playerSockets
  /\ joinsSent' = joinsSent + 1
  /\ UNCHANGED <<connected, evaluated>>

\* ------------------------------------------------------------- makeMove
\* The result of socket.on('makeMove') for socket c and request q =
\* [room, index, symbol].  moved tells whether the cell was written.
MoveError(c, msg) ==
  [rooms |-> rooms, pending |-> pending, moved |-> FALSE,
   events |-> <<ToCaller(c, "error", msg)>>]
makeMove(c, q) ==
  IF q.room \notin DOMAIN rooms THEN MoveError(c, "Room not found")
  ELSE
  LET roomData == rooms[q.room]
      gameState == roomData.gameState
  IN  IF c \notin PlayerIds(roomData) THEN MoveError(c, "Player not in room")
      ELSE IF gameState.gameStatus # "active" THEN MoveError(c, "Game is not active")
      ELSE IF gameState.currentTurn # q.symbol THEN MoveError(c, "Not your turn")
      ELSE IF Cell(gameState.board, q.index) # "" THEN MoveError(c, "Cell already occupied")
      ELSE
        LET board2 == [gameState.board EXCEPT ![q.index + 1] = q.symbol]
            winner == checkWinner(board2)
            gsMoved == [gameState EXCEPT !.board = board2, !.moves = @ + 1]
            gsEnd == [gsMoved EXCEPT !.gameStatus = "finished", !.winner = winner]
            gsNext == [gsMoved EXCEPT !.currentTurn = SwitchTurn(gameState.currentTurn)]
        IN  IF winner # "null"
            THEN [rooms |-> [rooms EXCEPT ![q.room] =
                               [roomData EXCEPT !.gameState = gsEnd, !.timeout = "null"]],
                  pending |-> IF roomData.timeout # "null"
                              THEN ClearTimeout(pending, q.room, roomData.timeout)
                              ELSE pending,
                  moved |-> TRUE,
                  events |-> <<ToRoom(adapter, q.room, "gameEnd", gsEnd, Len(roomData.players))>>]
            ELSE [rooms |-> [rooms EXCEPT ![q.room] = [roomData EXCEPT !.gameState = gsNext]],
                  pending |-> pending,
                  moved |-> TRUE,
                  events |-> <<ToRoom(adapter, q.room, "moveUpdate", gsNext,
                                      Len(roomData.players))>>]

MakeMove(c, q) ==
  /\ c \in connected
  /\ LET res == makeMove(c, q)
     IN  /\ rooms' = res.rooms
         /\ pending' = res.pending
  /\ UNCHANGED <<connected, playerSockets, adapter, evaluated, joinsSent>>

\* ------------------------------------------------------------ resetGame
resetGame(c, room) ==
  IF room \notin DOMAIN rooms \/ c \notin PlayerIds(rooms[room])
  THEN [rooms |-> rooms, pending |-> pending, events |-> <<>>]
  ELSE LET res == resetRoom(rooms, pending, room)
       IN  [rooms |-> res.rooms, pending |-> res.pending,
            events |-> <<ToRoom(adapter, room, "gameReset", res.rooms[room].gameState,
                                Len(res.rooms[room].players))>>]

ResetGame(c, room) ==
  /\ c \in connected
  /\ LET res == resetGame(c, room)
     IN  /\ rooms' = res.rooms
         /\ pending' = res.pending
  /\ UNCHANGED <<connected, playerSockets, adapter, evaluated, joinsSent>>

\* ---------------------------------------------------------- playerReady
playerReady(c, room) ==
  IF room \notin DOMAIN rooms \/ c \notin PlayerIds(rooms[room])
  THEN [rooms |-> rooms, events |-> <<>>]
  ELSE LET roomData == rooms[room]
           players2 == [i \in 1..Len(roomData.players) |->
                          IF roomData.players[i].id = c
                          THEN [roomData.players[i] EXCEPT !.ready = ~@]
                          ELSE roomData.players[i]]
       IN  [rooms |-> [rooms EXCEPT ![room] = [roomData EXCEPT !.players = players2]],
            events |-> <<ToRoom(adapter, room, "playerReadyUpdate", roomData.gameState,
                                Len(players2))>>]

PlayerReady(c, room) ==
  /\ c \in connected
  /\ rooms' = playerReady(c, room).rooms
  /\ UNCHANGED <<connected, playerSockets, adapter, pending, evaluated, joinsSent>>

\* ---------------------------------------------------------- chatMessage
\* The events of socket.on('chatMessage'); the handler changes no state.
chatMessage(c, room, message) ==
  IF room \notin DOMAIN rooms \/ c \notin PlayerIds(rooms[room]) THEN <<>>
  ELSE IF Len(Trim(message)) > MaxChatLen THEN <<>>
  ELSE <<ToRoomPlain(adapter, room, "chatMessage")>>

ChatMessage(c, room, message) ==
  /\ c \in connected
  /\ UNCHANGED vars

\* ----------------------------------------------------------- disconnect
\* The transport closes socket c: the adapter drops it from its rooms, then
\* the disconnect handler runs.
disconnect(c) ==
  LET adp1 == AdapterLeaveAll(adapter, c)
  IN  IF c \in DOMAIN playerSockets
      THEN LET res == leaveRoom(rooms, pending, adp1, c, playerSockets[c])
           IN  [rooms |-> res.rooms, pending |-> res.pending, adapter |-> adp1,
                playerSockets |-> Del(playerSockets, c), events |-> res.events]
      ELSE [rooms |-> rooms, pending |-> pending, adapter |-> adp1,
            playerSockets |-> playerSockets, events |-> <<>>]

Disconnect(c) ==
  /\ c \in connected
  /\ connected' = connected \ {c}
  /\ LET res == disconnect(c)
     IN  /\ rooms' = res.rooms
         /\ pending' = res.pending
         /\ adapter' = res.adapter
         /\ playerSockets' = res.playerSockets
  /\ UNCHANGED <<evaluated, joinsSent>>

\* ------------------------------------------------------ inactivity timer
\* Whether a pending setTimeout callback of room id room can run: viaHandle
\* tells whether it is the timer roomData.timeout refers to, or one whose
\* handle was overwritten or went with a deleted room.
HandlePending(room) == room \in DOMAIN rooms /\ rooms[room].timeout = "pending"
CanFire(room, viaHandle) ==
  IF viaHandle THEN HandlePending(room)
  ELSE pending[room] > (IF HandlePending(room) THEN 1 ELSE 0)
\* The setTimeout callback of joinRoom: gameTimeout is emitted, then resetRoom.
gameTimeout(room, viaHandle) ==
  LET pend1 == [pending EXCEPT ![room] = @ - 1]
      rms1 == IF viaHandle THEN [rooms EXCEPT ![room].timeout = "fired"] ELSE rooms
      res == resetRoom(rms1, pend1, room)
  IN  [rooms |-> res.rooms, pending |-> res.pending,
       events |-> <<[ToRoomPlain(adapter, room, "gameTimeout")
                       EXCEPT !.msg = "Game timed out due to inactivity"]>>]

GameTimeout(room, viaHandle) ==
  /\ CanFire(room, viaHandle)
  /\ LET res == gameTimeout(room, viaHandle)
     IN  /\ rooms' = res.rooms
         /\ pending' = res.pending
  /\ UNCHANGED <<connected, playerSockets, adapter, evaluated, joinsSent>>

\* ---------------------------------------------------------------- sweep
\* The 30-minute interval callback.  stale is the set of rooms created more
\* than the threshold ago: the clock is the environment's.
Sweep(stale) ==
  /\ stale \subseteq DOMAIN rooms
  /\ LET gone == {r \in stale : Len(rooms[r].players) = 0}
     IN  /\ rooms' = [r \in DOMAIN rooms \ gone |-> rooms[r]]
         /\ pending' = [r \in DOMAIN pending |->
                          IF r \in gone /\ rooms[r].timeout = "pending"
                          THEN pending[r] - 1 ELSE pending[r]]
  /\ UNCHANGED <<connected, playerSockets, adapter, evaluated, joinsSent>>

\* ----------------------------------------------------------------- Next
\* The requests clients send.  Well-formed joinRoom requests ask for room 1
\* with symbol X or O and for the other rooms with symbol Z (odd-numbered rooms
\* are asked for as private); the malformed ones miss a field, exceed a length
\* or carry a number as name.
JoinRequests ==
  {[room |-> Room1, name |-> GoodName, nameType |-> "string", symbol |-> s, isPrivate |-> TRUE] : s \in {"X", "O"}}
  \cup {[room |-> RoomId(n), name |-> GoodName, nameType |-> "string", symbol |-> "Z", isPrivate |-> (n % 2 = 1)] :
          n \in 2..MaxRooms}
  \cup {[room |-> <<>>, name |-> GoodName, nameType |-> "string", symbol |-> "X", isPrivate |-> FALSE],
        [room |-> Room1, name |-> <<>>, nameType |-> "string", symbol |-> "X", isPrivate |-> FALSE],
        [room |-> Room1, name |-> GoodName, nameType |-> "string", symbol |-> "", isPrivate |-> FALSE],
        [room |-> Room1, name |-> LongName, nameType |-> "string", symbol |-> "X", isPrivate |-> FALSE],
        [room |-> LongRoom, name |-> GoodName, nameType |-> "string", symbol |-> "X", isPrivate |-> FALSE],
        [room |-> Room1, name |-> NumberName, nameType |-> "number", symbol |-> "X", isPrivate |-> FALSE]}
\* makeMove requests: in room 1, X on the cells of the top row and O on the
\* cells 3..MaxIndex; requests with an index outside the board, with a symbol
\* that is never on turn, for another room and for a room id never stored.
MoveRequests ==
  {[room |-> Room1, index |-> i, symbol |-> "X"] : i \in 0..2}
  \cup {[room |-> Room1, index |-> i, symbol |-> "O"] : i \in 3..MaxIndex}
  \cup {[room |-> Room1, index |-> i, symbol |-> "X"] : i \in {-1, BoardSize}}
  \cup {[room |-> Room1, index |-> 0, symbol |-> "Z"]}
  \cup {[room |-> r, index |-> 0, symbol |-> "X"] : r \in (ValidRooms \ {Room1}) \cup {LongRoom}}
RoomRequests == ValidRooms \cup {LongRoom}
\* The sockets that send playerReady.
ReadyConns == {1}

Next ==
  \/ \E c \in Conns, q \in JoinRequests : JoinRoom(c, q)
  \/ \E c \in Conns, q \in MoveRequests : MakeMove(c, q)
  \/ \E c \in Conns, room \in RoomRequests : ResetGame(c, room)
  \/ \E c \in ReadyConns, room \in RoomRequests : PlayerReady(c, room)
  \/ \E c \in Conns, room \in RoomRequests, message \in ChatInputs : ChatMessage(c, room, message)
  \/ \E c \in Conns : Disconnect(c)
  \/ \E room \in ValidRooms, viaHandle \in BOOLEAN : GameTimeout(room, viaHandle)
  \/ \E stale \in SUBSET ValidRooms : Sweep(stale)

Spec == Init /\ [][Next]_vars

\* ------------------------------------------------------------- SpecGame
\* A second environment, for the outcome of whole games: two sockets play in
\* room 1 and ask for every cell of the board.  Each cell is asked for with the
\* symbol it holds on TieBoard, a full board without a line; cell 1 is also
\* asked for with X and cell 3 with O, which lets either symbol complete a row.
\* Besides the two well-formed joinRoom requests the sockets send one whose
\* name is a number.
TieBoard == <<"X", "O", "X", "X", "O", "O", "O", "X", "X">>
GameConns == {1, 2}
GameJoinRequests ==
  {[room |-> Room1, name |-> GoodName, nameType |-> "string", symbol |-> s, isPrivate |-> FALSE] : s \in {"X", "O"}}
  \cup {[room |-> Room1, name |-> NumberName, nameType |-> "number", symbol |-> "X",
          isPrivate |-> FALSE]}
GameMoveRequests ==
  {[room |-> Room1, index |-> i, symbol |-> TieBoard[i + 1]] : i \in 0..(BoardSize - 1)}
  \cup {[room |-> Room1, index |-> 1, symbol |-> "X"],
        [room |-> Room1, index |-> 3, symbol |-> "O"]}

NextGame ==
  \/ \E c \in GameConns, q \in GameJoinRequests : JoinRoom(c, q)
  \/ \E c \in GameConns, q \in GameMoveRequests : MakeMove(c, q)
  \/ \E c \in GameConns : ResetGame(c, Room1)
  \/ \E c \in GameConns : Disconnect(c)
  \/ \E viaHandle \in BOOLEAN : GameTimeout(Room1, viaHandle)
  \/ \E stale \in SUBSET {Room1} : Sweep(stale)

SpecGame == Init /\ [][NextGame]_vars

\* ------------------------------------------------------------ SpecBoards
\* checkWinner on its own: every board of 9 cells over {'', 'X', 'O'} is handed
\* to the function once.  The server state does not take part.
Boards == [1..BoardSize -> {"", "X", "O"}]
InitBoards ==
  /\ connected = {}
  /\ rooms = << >>
  /\ playerSockets = << >>
  /\ adapter = [room \in ValidRooms |-> {}]
  /\ pending = [room \in ValidRooms |-> 0]
  /\ evaluated \in [board : Boards, winner : {"unset"}]
  /\ joinsSent = 0
Evaluate ==
  /\ evaluated.winner = "unset"
  /\ evaluated' = [evaluated EXCEPT !.winner = checkWinner(evaluated.board)]
  /\ UNCHANGED <<connected, rooms, playerSockets, adapter, pending, joinsSent>>
NextBoards == Evaluate
SpecBoards == InitBoards /\ [][NextBoards]_vars

\* =================================================================
\* Properties
\* =================================================================
LastEvent(events) == events[Len(events)]
\* The 8 lines of the board: 3 rows, 3 columns, 2 diagonals (0-based cells).
StdLines ==
  {{3 * r, 3 * r + 1, 3 * r + 2} : r \in 0..2}
  \cup {{k, k + 3, k + 6} : k \in 0..2}
  \cup {{0, 4, 8}, {2, 4, 6}}
LineOf(board, s) == \E line \in StdLines : \A i \in line : board[i + 1] = s
HasLine(board) == LineOf(board, "X") \/ LineOf(board, "O")
BoardFull(board) == \A i \in 1..BoardSize : board[i] # ""
IsRoomEvent(e, ev, room) == e.ev = ev /\ e.room = room /\ e.to = adapter[room]
IsCallerEvent(e, c) == e.room = <<>> /\ e.to = {c}

\* C1: in every reachable state every room of the registry holds at most 2
\* players, and no two players of one room have the same symbol.
C1_RoomCapacityAndSymbols ==
  \A r \in DOMAIN rooms :
    /\ Len(rooms[r].players) <= 2
    /\ \A i, j \in 1..Len(rooms[r].players) :
         i # j => rooms[r].players[i].symbol # rooms[r].players[j].symbol
\* A full room 1 refuses a third socket with roomFull while another room refuses
\* a request for the symbol its player holds with symbolTaken.
C1_Witness ==
  /\ \E c \in connected, q \in JoinRequests :
       /\ q.room \in DOMAIN rooms
       /\ Len(rooms[q.room].players) = 2
       /\ c \notin PlayerIds(rooms[q.room])
       /\ LastEvent(joinRoom(c, q).events).ev = "roomFull"
  /\ \E c \in connected, q \in JoinRequests :
       /\ q.room \in DOMAIN rooms
       /\ Len(rooms[q.room].players) = 1
       /\ LastEvent(joinRoom(c, q).events).ev = "symbolTaken"

\* C2: a makeMove request for an unknown room, from a socket that is not a
\* member, for a game that is not active, with a symbol that is not on turn,
\* for an occupied cell or for an index outside 0..8 is rejected, and a rejected
\* request leaves the registry (board, moveCount, currentTurn, status, winner
\* of every room) and the timers unchanged, the board at 9 cells, and emits
\* exactly one event, an error to the sender alone.
C2_MustReject(c, q) ==
  \/ q.room \notin DOMAIN rooms
  \/ c \notin PlayerIds(rooms[q.room])
  \/ rooms[q.room].gameState.gameStatus # "active"
  \/ rooms[q.room].gameState.currentTurn # q.symbol
  \/ q.index \notin 0..8
  \/ rooms[q.room].gameState.board[q.index + 1] # ""
C2_RejectedMoveChangesNothing ==
  \A c \in connected, q \in MoveRequests :
    LET res == makeMove(c, q)
    IN  /\ C2_MustReject(c, q) => ~res.moved
        /\ ~res.moved =>
             /\ res.rooms = rooms
             /\ res.pending = pending
             /\ \A r \in DOMAIN res.rooms : Len(res.rooms[r].gameState.board) = 9
             /\ Len(res.events) = 1
             /\ res.events[1].ev = "error"
             /\ IsCallerEvent(res.events[1], c)
\* Scenario B: after a move a member asks for the occupied cell, and a member
\* asks for index 9, both while the game is active.
C2_Witness ==
  \E c \in connected, q1, q2 \in MoveRequests :
    /\ q1.room \in DOMAIN rooms
    /\ rooms[q1.room].gameState.gameStatus = "active"
    /\ rooms[q1.room].gameState.moves > 0
    /\ makeMove(c, q1).events[1].msg = "Cell already occupied"
    /\ q1.index \in 0..8
    /\ q2.room = q1.room /\ q2.index = 9 /\ q2.symbol = rooms[q1.room].gameState.currentTurn
    /\ ~makeMove(c, q2).moved

\* C3: after a successful makeMove that does not decide the game, currentTurn
\* is the symbol other than the one placed, and the placed symbol was
\* currentTurn before the move.
C3_TurnAlternates ==
  \A c \in connected, q \in MoveRequests :
    LET res == makeMove(c, q)
    IN  (res.moved /\ res.rooms[q.room].gameState.gameStatus = "active") =>
          /\ q.symbol \in {"X", "O"}
          /\ rooms[q.room].gameState.currentTurn = q.symbol
          /\ res.rooms[q.room].gameState.board[q.index + 1] = q.symbol
          /\ res.rooms[q.room].gameState.currentTurn \in {"X", "O"} \ {q.symbol}
\* X has moved, and O now makes a move that leaves the game undecided.
C3_Witness ==
  \E c \in connected, q \in MoveRequests :
    /\ q.symbol = "O"
    /\ q.room \in DOMAIN rooms
    /\ rooms[q.room].gameState.moves > 0
    /\ makeMove(c, q).moved
    /\ makeMove(c, q).rooms[q.room].gameState.gameStatus = "active"
    /\ makeMove(c, q).rooms[q.room].gameState.currentTurn = "X"

\* C4: a successful makeMove whose resulting board has a completed line or no
\* empty cell sets status finished and winner to the symbol of a completed line
\* (tie when the board is full without a line) and emits gameEnd to the room;
\* every other successful makeMove leaves status active with winner null and
\* emits moveUpdate to the room.
C4_MoveOutcome ==
  \A c \in connected, q \in GameMoveRequests :
    LET res == makeMove(c, q)
        gs == res.rooms[q.room].gameState
    IN  res.moved =>
          /\ Len(res.events) = 1
          /\ IF HasLine(gs.board) \/ BoardFull(gs.board)
             THEN /\ gs.gameStatus = "finished"
                  /\ IF HasLine(gs.board)
                     THEN gs.winner \in {"X", "O"} /\ LineOf(gs.board, gs.winner)
                     ELSE gs.winner = "tie"
                  /\ IsRoomEvent(res.events[1], "gameEnd", q.room)
                  /\ res.events[1].status = "finished"
                  /\ res.events[1].winner = gs.winner
             ELSE /\ gs.gameStatus = "active"
                  /\ gs.winner = "null"
                  /\ IsRoomEvent(res.events[1], "moveUpdate", q.room)
\* Scenario D: the ninth move fills the board without completing a line.
C4_Witness ==
  \E c \in connected, q \in GameMoveRequests :
    /\ q.room \in DOMAIN rooms
    /\ rooms[q.room].gameState.moves = 8
    /\ makeMove(c, q).moved
    /\ makeMove(c, q).rooms[q.room].gameState.winner = "tie"
    /\ makeMove(c, q).events[1].ev = "gameEnd"

\* C5 (as claimed): a joinRoom request that does not add the caller (missing
\* field, name or room id too long, room full, symbol taken) changes no room
\* and no connection -> room entry and emits exactly one event, to the caller
\* alone, also when the caller is a member of some room.
C5_RejectedJoinChangesNothing ==
  \A c \in connected, q \in JoinRequests :
    LET res == joinRoom(c, q)
    IN  ~res.added =>
          /\ res.rooms = rooms
          /\ res.playerSockets = playerSockets
          /\ Len(res.events) = 1
          /\ IsCallerEvent(res.events[1], c)

\* C6 (as claimed): whenever a player is removed from a room whose game is
\* active and another player remains, the room's status becomes finished and
\* its winner is null.
C6_AbandonmentHasNoWinner ==
  \A r \in DOMAIN rooms : \A c \in PlayerIds(rooms[r]) :
    (rooms[r].gameState.gameStatus = "active" /\ Len(rooms[r].players) >= 2) =>
      LET res == leaveRoom(rooms, pending, adapter, c, r)
      IN  /\ res.rooms[r].gameState.gameStatus = "finished"
          /\ res.rooms[r].gameState.winner = "null"

\* C7 (as claimed): in no reachable state is a room's status finished while an
\* inactivity timer for that room is still pending.
C7_NoTimerAfterFinish ==
  \A r \in DOMAIN rooms : rooms[r].gameState.gameStatus = "finished" => pending[r] = 0

\* C8 (as claimed): when a room's inactivity timer fires before the game
\* reached finished, the room is reset to status waiting with an empty board,
\* moveCount 0, winner null, every ready flag false and the player list
\* unchanged.
C8_Fires(room, viaHandle) ==
  /\ CanFire(room, viaHandle)
  /\ room \in DOMAIN rooms
  /\ rooms[room].gameState.gameStatus # "finished"
C8_ResetBy(room, viaHandle, status) ==
  LET res == gameTimeout(room, viaHandle)
      r2 == res.rooms[room]
  IN  /\ r2.gameState.gameStatus = status
      /\ r2.gameState.board = [i \in 1..9 |-> ""]
      /\ r2.gameState.moves = 0
      /\ r2.gameState.winner = "null"
      /\ Len(r2.players) = Len(rooms[room].players)
      /\ \A i \in 1..Len(r2.players) :
           /\ r2.players[i].ready = FALSE
           /\ r2.players[i].id = rooms[room].players[i].id
           /\ r2.players[i].symbol = rooms[room].players[i].symbol
           /\ r2.players[i].name = rooms[room].players[i].name
C8_TimeoutResetsToWaiting ==
  \A room \in ValidRooms, viaHandle \in BOOLEAN :
    C8_Fires(room, viaHandle) => C8_ResetBy(room, viaHandle, "waiting")
\* C8 (amended): ... the room is reset to status active when it holds 2 players
\* and to waiting otherwise, with an empty board, moveCount 0, winner null,
\* every ready flag false and the player list unchanged.
C8_TimeoutResets ==
  \A room \in ValidRooms, viaHandle \in BOOLEAN :
    C8_Fires(room, viaHandle) =>
      C8_ResetBy(room, viaHandle,
                 IF Len(rooms[room].players) = 2 THEN "active" ELSE "waiting")
\* The timer of an active game with moves on the board and a ready player is
\* about to fire.
C8_Witness ==
  \E room \in ValidRooms :
    /\ C8_Fires(room, TRUE)
    /\ rooms[room].gameState.gameStatus = "active"
    /\ rooms[room].gameState.moves > 0
    /\ \E i \in 1..Len(rooms[room].players) : rooms[room].players[i].ready

\* C9 (as claimed): every joinRoom request that adds the caller emits
\* joinSuccess to the caller and no error to the caller, roomUpdate to the
\* room, and gameStart to the room exactly when the room now has 2 players.
C9_JoinAnnounced ==
  \A c \in connected, q \in JoinRequests :
    LET res == joinRoom(c, q)
        evs == {res.events[i] : i \in 1..Len(res.events)}
    IN  res.added =>
          /\ \E e \in evs : e.ev = "joinSuccess" /\ e.to = {c}
          /\ ~\E e \in evs : e.ev = "error" /\ c \in e.to
          /\ \E e \in evs : e.ev = "roomUpdate" /\ e.room = q.room /\ c \in e.to
          /\ (\E e \in evs : e.ev = "gameStart" /\ e.room = q.room)
               <=> Len(res.rooms[q.room].players) = 2

\* C10: in every reachable state each connection id is in the player list of
\* at most one room and at most once in it, and a joinRoom request that adds a
\* socket leaves it in the player list of the requested room only.
C10_Memberships(rms, c) ==
  UNION {{<<r, i>> : i \in {j \in 1..Len(rms[r].players) : rms[r].players[j].id = c}} :
           r \in DOMAIN rms}
C10_OneMembership ==
  /\ \A c \in Conns : Cardinality(C10_Memberships(rooms, c)) <= 1
  /\ \A c \in connected, q \in JoinRequests :
       LET res == joinRoom(c, q)
       IN  res.added =>
             /\ Cardinality(C10_Memberships(res.rooms, c)) = 1
             /\ \A m \in C10_Memberships(res.rooms, c) : m[1] = q.room
\* A member of one room asks for another room and is added there.
C10_Witness ==
  \E c \in connected, q \in JoinRequests :
    /\ c \in DOMAIN playerSockets
    /\ playerSockets[c] \in DOMAIN rooms
    /\ c \in PlayerIds(rooms[playerSockets[c]])
    /\ q.room # playerSockets[c]
    /\ joinRoom(c, q).added

\* C11 (as claimed): after every completed handler every room of the registry
\* has at least one player.
C11_NoEmptyRoom ==
  \A r \in DOMAIN rooms : Len(rooms[r].players) >= 1

\* C12 (as claimed): no board of a room holds both a completed line of X and a
\* completed line of O.
C12_NoDoubleLine ==
  \A r \in DOMAIN rooms :
    ~(LineOf(rooms[r].gameState.board, "X") /\ LineOf(rooms[r].gameState.board, "O"))

\* C13 (as claimed): for every board of 9 cells over {empty, X, O}, checkWinner
\* returns a symbol s exactly when one of the 8 lines has all three cells equal
\* to s, returns tie when no line is complete and no cell is empty, and returns
\* no result otherwise.
C13_WinnerIffLine ==
  evaluated.winner # "unset" =>
    /\ \A s \in {"X", "O"} : evaluated.winner = s <=> LineOf(evaluated.board, s)
    /\ evaluated.winner = "tie" <=> (~HasLine(evaluated.board) /\ BoardFull(evaluated.board))
    /\ evaluated.winner = "null" <=> (~HasLine(evaluated.board) /\ ~BoardFull(evaluated.board))
\* The 8 lines in the order the function tries them: rows, columns, diagonals.
C13_LineOrder ==
  << {0, 1, 2}, {3, 4, 5}, {6, 7, 8}, {0, 3, 6}, {1, 4, 7}, {2, 5, 8}, {0, 4, 8}, {2, 4, 6} >>
C13_Complete(board, k, s) == \A i \in C13_LineOrder[k] : board[i + 1] = s
\* C13 (amended): checkWinner returns a symbol s exactly when the first complete
\* line, in the order rows, columns, diagonals, has all three cells equal to s
\* (so it returns a symbol whenever some line is complete, and only the symbol
\* of a complete line); it returns tie when no line is complete and no cell is
\* empty, and no result otherwise.
C13_FirstLineDecides ==
  evaluated.winner # "unset" =>
    /\ \A s \in {"X", "O"} :
         evaluated.winner = s <=>
           \E k \in 1..8 :
             /\ C13_Complete(evaluated.board, k, s)
             /\ \A j \in 1..(k - 1) :
                  ~C13_Complete(evaluated.board, j, "X") /\ ~C13_Complete(evaluated.board, j, "O")
    /\ HasLine(evaluated.board) => evaluated.winner \in {"X", "O"}
    /\ evaluated.winner = "tie" <=> (~HasLine(evaluated.board) /\ BoardFull(evaluated.board))
    /\ evaluated.winner = "null" <=> (~HasLine(evaluated.board) /\ ~BoardFull(evaluated.board))
\* A board whose top row is complete with O and which also holds a complete
\* line of X has been evaluated.
C13_Witness ==
  /\ evaluated.winner = "O"
  /\ C13_Complete(evaluated.board, 1, "O")
  /\ LineOf(evaluated.board, "X")

\* C14 (as claimed): a resetGame request from a member of the room, in any game
\* status, yields an empty board, currentTurn X, winner null, moveCount 0, all
\* ready flags false, no pending inactivity timer for the room, an unchanged
\* player list, and status active if the room has 2 players and waiting
\* otherwise; a request from a socket that is not a member changes nothing.
C14_ResetGame ==
  \A c \in connected, room \in RoomRequests :
    LET res == resetGame(c, room)
    IN  IF room \in DOMAIN rooms /\ c \in PlayerIds(rooms[room])
        THEN LET r2 == res.rooms[room]
             IN  /\ r2.gameState.board = [i \in 1..9 |-> ""]
                 /\ r2.gameState.currentTurn = "X"
                 /\ r2.gameState.winner = "null"
                 /\ r2.gameState.moves = 0
                 /\ r2.gameState.gameStatus =
                      (IF Len(rooms[room].players) = 2 THEN "active" ELSE "waiting")
                 /\ Len(r2.players) = Len(rooms[room].players)
                 /\ \A i \in 1..Len(r2.players) :
                      /\ r2.players[i].ready = FALSE
                      /\ r2.players[i].id = rooms[room].players[i].id
                      /\ r2.players[i].symbol = rooms[room].players[i].symbol
                 /\ r2.timeout = "null"
                 /\ res.pending[room] = 0
        ELSE /\ res.rooms = rooms
             /\ res.pending = pending
             /\ res.events = << >>

\* C15 (as claimed): when a member disconnects and another player remains,
\* exactly one event is broadcast to the room: playerLeft, with the updated
\* roster and status finished, if the game was active, and roomUpdate if not.
C15_OneDepartureEvent ==
  \A c \in connected :
    (/\ c \in DOMAIN playerSockets
     /\ playerSockets[c] \in DOMAIN rooms
     /\ c \in PlayerIds(rooms[playerSockets[c]])
     /\ Len(rooms[playerSockets[c]].players) >= 2) =>
      LET room == playerSockets[c]
          res == disconnect(c)
          said == {i \in 1..Len(res.events) : res.events[i].ev \in {"playerLeft", "roomUpdate"}}
      IN  /\ Cardinality(said) = 1
          /\ \A i \in said :
               /\ res.events[i].room = room
               /\ res.events[i].to = PlayerIds(rooms[room]) \ {c}
               /\ IF rooms[room].gameState.gameStatus = "active"
                  THEN /\ res.events[i].ev = "playerLeft"
                       /\ res.events[i].status = "finished"
                       /\ res.events[i].n = Len(rooms[room].players) - 1
                  ELSE res.events[i].ev = "roomUpdate"

\* C16: in every reachable state a room whose status is active has exactly 2
\* players (a room with one player is never active), and a joinRoom request
\* that adds the second player of a room leaves it active with currentTurn X.
C16_ActiveHasTwoPlayers ==
  /\ \A r \in DOMAIN rooms :
       rooms[r].gameState.gameStatus = "active" => Len(rooms[r].players) = 2
  /\ \A c \in connected, q \in JoinRequests :
       LET res == joinRoom(c, q)
       IN  (res.added /\ Len(res.rooms[q.room].players) = 2) =>
             /\ res.rooms[q.room].gameState.gameStatus = "active"
             /\ res.rooms[q.room].gameState.currentTurn = "X"
\* A room was left during a game by one of its two players (one player, status
\* finished, O on turn), and a socket now joins it as second player.
C16_Witness ==
  \E c \in connected, q \in JoinRequests :
    /\ q.room \in DOMAIN rooms
    /\ Len(rooms[q.room].players) = 1
    /\ rooms[q.room].gameState.gameStatus = "finished"
    /\ rooms[q.room].gameState.currentTurn = "O"
    /\ c \notin PlayerIds(rooms[q.room])
    /\ joinRoom(c, q).added
    /\ joinRoom(c, q).rooms[q.room].gameState.gameStatus = "active"

\* C17: in every reachable state of every room, moveCount equals the number of
\* non-empty cells of the board and lies between 0 and 9.
C17_MoveCount ==
  \A r \in DOMAIN rooms :
    /\ rooms[r].gameState.moves =
         Cardinality({i \in 1..9 : rooms[r].gameState.board[i] # ""})
    /\ rooms[r].gameState.moves \in 0..9
\* The ninth move has filled a board.
C17_Witness ==
  \E r \in DOMAIN rooms :
    /\ rooms[r].gameState.moves = 9
    /\ \A i \in 1..9 : rooms[r].gameState.board[i] # ""

\* C18 (as claimed): whenever playerSockets records room r for socket c, room r
\* is in the registry and c is in its player list, and whenever c is in the
\* player list of r, playerSockets records r for c.
C18_MappingAgrees ==
  /\ \A c \in DOMAIN playerSockets :
       /\ playerSockets[c] \in DOMAIN rooms
       /\ c \in PlayerIds(rooms[playerSockets[c]])
  /\ \A r \in DOMAIN rooms : \A c \in PlayerIds(rooms[r]) :
       c \in DOMAIN playerSockets /\ playerSockets[c] = r

\* C19 (as claimed): every player admitted to a room has symbol X or O, and in
\* every room with 2 players one holds X and the other O.
C19_SymbolsAreXO ==
  \A r \in DOMAIN rooms :
    /\ PlayerSymbols(rooms[r]) \subseteq {"X", "O"}
    /\ Len(rooms[r].players) = 2 => PlayerSymbols(rooms[r]) = {"X", "O"}

\* C20 (as claimed): every symbol written to a cell by a successful makeMove is
\* the symbol of the player whose socket sent the request.
C20_OwnSymbolOnly ==
  \A c \in connected, q \in MoveRequests :
    LET res == makeMove(c, q)
    IN  res.moved =>
          \E i \in 1..Len(rooms[q.room].players) :
            /\ rooms[q.room].players[i].id = c
            /\ rooms[q.room].players[i].symbol = q.symbol

\* C21 (as claimed): in every reachable state with status active, winner is
\* null, no line of the board is complete, at least one cell is empty, and the
\* number of X cells minus the number of O cells is 0 or 1.
C21_Count(board, s) == Cardinality({i \in 1..9 : board[i] = s})
C21_ActiveIsUndecided ==
  \A r \in DOMAIN rooms :
    rooms[r].gameState.gameStatus = "active" =>
      LET gs == rooms[r].gameState
      IN  /\ gs.winner = "null"
          /\ ~HasLine(gs.board)
          /\ ~BoardFull(gs.board)
          /\ C21_Count(gs.board, "X") - C21_Count(gs.board, "O") \in {0, 1}

\* C22 (as claimed): at most one inactivity timer is pending per room id, and
\* a pending timer is the one armed for the room's current game (the one
\* roomData.timeout refers to), never one left over from an earlier game or
\* from a deleted room of the same id.
C22_OneTimerPerRoom ==
  \A r \in ValidRooms :
    /\ pending[r] <= 1
    /\ pending[r] = 1 => HandlePending(r)
    /\ ~CanFire(r, FALSE)

\* C23 (as claimed): no makeMove, resetGame, playerReady, chatMessage, joinRoom
\* to another room, or disconnect sent by a socket that is not in a room's
\* player list changes that room's game state or players, or emits an event
\* to that room.
C23_Untouched(r, rms, events) ==
  /\ r \in DOMAIN rms
  /\ rms[r].gameState = rooms[r].gameState
  /\ rms[r].players = rooms[r].players
  /\ \A i \in 1..Len(events) : events[i].room # r
C23_NonMemberChangesNothing ==
  \A r \in DOMAIN rooms : \A c \in connected \ PlayerIds(rooms[r]) :
    /\ \A q \in MoveRequests :
         C23_Untouched(r, makeMove(c, q).rooms, makeMove(c, q).events)
    /\ \A room \in RoomRequests :
         /\ C23_Untouched(r, resetGame(c, room).rooms, resetGame(c, room).events)
         /\ C23_Untouched(r, playerReady(c, room).rooms, playerReady(c, room).events)
         /\ \A message \in ChatInputs :
              C23_Untouched(r, rooms, chatMessage(c, room, message))
    /\ \A q \in JoinRequests :
         q.room # r => C23_Untouched(r, joinRoom(c, q).rooms, joinRoom(c, q).events)
    /\ C23_Untouched(r, disconnect(c).rooms, disconnect(c).events)

\* C24 (as claimed): in every reachable state, a room whose status is active
\* has a pending inactivity timer.
C24_ActiveHasTimer ==
  \A r \in DOMAIN rooms :
    rooms[r].gameState.gameStatus = "active" => pending[r] >= 1

====
